---- MODULE Spec2Model ----
(***************************************************************************)
(* The intent-interpretation pipeline of the Domain Pack Orchestrator      *)
(* backend: provider selection, the retry-wrapped backend call, extraction *)
(* of a JSON value from the backend's text, normalization, identifier      *)
(* filling, schema validation and the classification of failures.          *)
(*                                                                         *)
(* Modelling conventions                                                   *)
(*  - A text is a sequence of tokens separated by whitespace.  Token "w"   *)
(*    is a prose word of two or more characters with no brace and no       *)
(*    backquote, "F" is the fence ```, "FJ" is the tagged fence ```json,   *)
(*    "{" and "}" are single brace characters, "N" is the number text 42,  *)
(*    and "R" is the serialization of the JSON object the text carries     *)
(*    (it begins with "{" and ends with "}").                              *)
(*  - A JSON object is a record with one field per schema key; the string  *)
(*    "ABSENT" stands for a missing key and "NONSTR" for a value that is   *)
(*    present but is not a JSON string.                                    *)
(*  - Confidence is counted in tenths (9 is 0.9).                          *)
(*  - The client packages (openai, groq, anthropic) are installed, the     *)
(*    retry library is tenacity 8 and the schema library is pydantic 2.    *)
(***************************************************************************)
EXTENDS Integers, Sequences, FiniteSets, TLC

VARIABLES
    settings,      \* core.config.settings: the process-wide configuration
    request,       \* the IntentRequest being served
    pc,            \* the position of interpret_intent / generate_intent
    attempts,      \* number of backend invocations made for this request
    delays,        \* the backoff sleeps taken so far, in seconds
    calls,         \* outcome of each backend invocation, in order
    raw_output,    \* the text returned by provider.generate
    extracted,     \* the object parse_llm_output returned, as it is now
    intent_data,   \* generate_intent's local intent_data
    raised,        \* the exception that left generate_intent, if any
    response,      \* what interpret_intent answers
    warnings,      \* the warning-level records interpret_intent has logged
    health,        \* what intent_health_check answered, if it was called
    cancelled      \* the client of the request has disconnected

vars == <<settings, request, pc, attempts, delays, calls, raw_output,
          extracted, intent_data, raised, response, warnings, health, cancelled>>

(***************************************************************************)
(* Bounds of the model.                                                    *)
(***************************************************************************)
MaxTextLen == 5
MaxEntities == 2

(***************************************************************************)
(* Program constants.                                                      *)
(***************************************************************************)
stop_after_attempt == 3
wait_multiplier == 1
wait_min == 2
wait_max == 10

(***************************************************************************)
(* JSON objects as the backend can produce them.                           *)
(***************************************************************************)
TargetSection ==
    {"name", "description", "version", "entities", "key_terms",
     "entity_aliases", "extraction_patterns", "business_context",
     "relationship_types", "relationships", "business_patterns",
     "reasoning_templates", "multihop_questions", "question_templates",
     "business_rules", "validation_rules"}

Operation == {"ADD", "UPDATE", "DELETE", "MERGE", "SPLIT", "REORDER"}

ExecutionRisk == {"LOW", "MEDIUM", "HIGH"}

\* A JSON object whose values are not looked at: only its keys matter.
DictOf(keys) == [k |-> "dict", keys |-> keys]
NoValue == [k |-> "absent", keys |-> {}]
NonDict == [k |-> "other", keys |-> {}]

EntryStr(s) == [k |-> "str", type |-> "ABSENT", name |-> s]
EntryDict(t, n) == [k |-> "dict", type |-> t, name |-> n]
EntryOther == [k |-> "other", type |-> "ABSENT", name |-> "ABSENT"]

Num(n) == [k |-> "num", n |-> n]
NumStr(n) == [k |-> "numstr", n |-> n]
NoNum(kind) == [k |-> kind, n |-> 0]

ListOf(items) == [k |-> "list", items |-> items]
NoList == [k |-> "absent", items |-> <<>>]
NonList == [k |-> "other", items |-> <<>>]

PayloadDict(e, i, rest) == [k |-> "dict", explicit |-> e, implicit |-> i, rest |-> rest]
NoPayload == [k |-> "absent", explicit |-> NoValue, implicit |-> NoValue, rest |-> {}]
NonDictPayload == [k |-> "other", explicit |-> NoValue, implicit |-> NoValue, rest |-> {}]

ConstraintsDict(m, a) ==
    [k |-> "dict", must_not_override_existing |-> m, additional_constraints |-> a]
NoConstraints == [k |-> "absent", must_not_override_existing |-> "ABSENT",
                  additional_constraints |-> NoValue]
NonDictConstraints == [k |-> "other", must_not_override_existing |-> "ABSENT",
                       additional_constraints |-> NoValue]

ValReqsDict(s, d, a) ==
    [k |-> "dict", schema_validation |-> s, duplicate_check |-> d,
     additional_validations |-> a]
NoValReqs == [k |-> "absent", schema_validation |-> "ABSENT",
              duplicate_check |-> "ABSENT", additional_validations |-> NoValue]
NonDictValReqs == [k |-> "other", schema_validation |-> "ABSENT",
                   duplicate_check |-> "ABSENT", additional_validations |-> NoValue]

\* The object {} : no key at all.
EmptyDoc ==
    [intent_id |-> "ABSENT", domain_pack_id |-> "ABSENT",
     target_section |-> "ABSENT", operation |-> "ABSENT",
     intent_summary |-> "ABSENT", confidence |-> NoNum("absent"),
     entities_involved |-> NoList, payload |-> NoPayload,
     constraints |-> NoConstraints, assumptions |-> "ABSENT",
     ambiguities |-> "ABSENT", suggestions |-> "ABSENT",
     validation_requirements |-> NoValReqs, execution_risk |-> "ABSENT",
     extra |-> {}]

\* The object {"a": 1}.
SampleDoc == [EmptyDoc EXCEPT !.extra = {"a"}]

\* An object in the shape the system prompt asks for.
CanonicalDoc ==
    [intent_id |-> "id-1", domain_pack_id |-> "Legal_v01",
     target_section |-> "entities", operation |-> "ADD",
     intent_summary |-> "Add entity CLIENT", confidence |-> Num(9),
     entities_involved |-> ListOf(<<EntryDict("ENTITY", "CLIENT")>>),
     payload |-> PayloadDict(DictOf({"client_id"}), DictOf({}), {}),
     constraints |-> ConstraintsDict("true", DictOf({})),
     assumptions |-> "EMPTY", ambiguities |-> "EMPTY", suggestions |-> "EMPTY",
     validation_requirements |-> ValReqsDict("true", "true", DictOf({})),
     execution_risk |-> "LOW", extra |-> {}]

\* The minimally-shaped object of the end-to-end example.
MinimalDoc ==
    [EmptyDoc EXCEPT
       !.target_section = "entities", !.operation = "ADD",
       !.intent_summary = "Add entity CLIENT", !.confidence = Num(9),
       !.execution_risk = "LOW",
       !.entities_involved = ListOf(<<EntryStr("CLIENT")>>),
       !.payload = PayloadDict(NoValue, NoValue, {"client_id", "name", "type"})]

StrChoices == {"ABSENT", "NONSTR"}
BoolChoices == {"ABSENT", "true", "false", "NONBOOL"}
ListChoices == {"ABSENT", "EMPTY", "ONE", "BAD"}
DictChoices == {NoValue, NonDict, DictOf({}), DictOf({"x"})}
ValidationsChoices == DictChoices \cup {[k |-> "badvalues", keys |-> {"x"}]}
EntryChoices ==
    {EntryStr("CLIENT"), EntryDict("ENTITY", "CLIENT"), EntryDict("ABSENT", "CASE"),
     EntryDict("RELATIONSHIP", "ABSENT"), EntryDict("ABSENT", "ABSENT"),
     EntryDict("NONSTR", "CLIENT"), EntryDict("ENTITY", "NONSTR"), EntryOther}
EntityLists == UNION {[1..n -> EntryChoices] : n \in 0..MaxEntities}

\* The values a backend can give each key.
FieldChoices(f) ==
    CASE f = "intent_id" -> StrChoices \cup {"id-1"}
      [] f = "domain_pack_id" -> StrChoices \cup {"Legal_v01", "Other_v02"}
      [] f = "target_section" -> StrChoices \cup {"entities", "relationships", "bogus"}
      [] f = "operation" -> StrChoices \cup {"ADD", "REORDER", "RENAME"}
      [] f = "intent_summary" -> StrChoices \cup {"Add entity CLIENT"}
      [] f = "confidence" ->
            {NoNum("absent"), NoNum("null"), NoNum("str"), NumStr(9), NumStr(12)}
            \cup {Num(n) : n \in {-1, 0, 3, 5, 9, 10, 11}}
      [] f = "entities_involved" ->
            {NoList, NonList} \cup {ListOf(l) : l \in EntityLists}
      [] f = "payload" ->
            {NoPayload, NonDictPayload}
            \cup {PayloadDict(e, i, r) : e \in DictChoices, i \in DictChoices,
                                        r \in {{}, {"client_id", "name", "type"}}}
      [] f = "constraints" ->
            {NoConstraints, NonDictConstraints}
            \cup {ConstraintsDict(m, a) : m \in BoolChoices, a \in DictChoices}
      [] f \in {"assumptions", "ambiguities", "suggestions"} -> ListChoices
      [] f = "validation_requirements" ->
            {NoValReqs, NonDictValReqs}
            \cup {ValReqsDict(s, d, a) : s \in BoolChoices, d \in BoolChoices,
                                        a \in ValidationsChoices}
      [] f = "execution_risk" -> StrChoices \cup {"LOW", "MEDIUM", "HIGH", "EXTREME"}
      [] f = "extra" -> {{}, {"a"}}

Fields == DOMAIN EmptyDoc

\* The objects the model lets a backend produce: each base object, and each
\* base object with one key given any other value.
BaseDocs == {EmptyDoc, SampleDoc, MinimalDoc, CanonicalDoc}
OneKeyChanged(b) == UNION {{[b EXCEPT ![f] = v] : v \in FieldChoices(f)} : f \in Fields}
Docs == UNION {OneKeyChanged(b) : b \in BaseDocs}

(***************************************************************************)
(* Texts and json.loads.                                                   *)
(***************************************************************************)
Tokens == {"w", "F", "FJ", "{", "}", "N", "R"}
AllTexts == UNION {[1..n -> Tokens] : n \in 0..MaxTextLen}

\* A Python value: a dict, an int, or nothing (no value was produced).
PyDict(d) == [k |-> "dict", n |-> 0, d |-> d]
PyInt(n) == [k |-> "int", n |-> n, d |-> EmptyDoc]
PyNone == [k |-> "none", n |-> 0, d |-> EmptyDoc]

Returned(v) == [ok |-> TRUE, exc |-> "", v |-> v]
Raised(cls) == [ok |-> FALSE, exc |-> cls, v |-> PyNone]

\* json.loads on a text whose "R" token serializes the object rec: the whole
\* text must be one JSON value, surrounding whitespace aside.  "4" is what is
\* left of the number text 42 without its last character.
json_loads(toks, rec) ==
    IF toks = <<"R">> THEN Returned(PyDict(rec))
    ELSE IF toks = <<"{", "}">> THEN Returned(PyDict(EmptyDoc))
    ELSE IF toks = <<"N">> THEN Returned(PyInt(42))
    ELSE IF toks = <<"4">> THEN Returned(PyInt(4))
    ELSE Raised("JSONDecodeError")

\* The tokens that hold the substring ```, ```json, { and }.
FenceTokens == {"F", "FJ"}
JsonFenceTokens == {"FJ"}
OpenBraceTokens == {"{", "R"}
CloseBraceTokens == {"}", "R"}

\* str.find / str.rfind at token granularity: the index of the first (last)
\* token that holds the substring, or 0 for Python's -1.
Find(toks, marks, from) ==
    LET hits == {i \in from..Len(toks) : toks[i] \in marks}
    IN  IF hits = {} THEN 0 ELSE CHOOSE i \in hits : \A j \in hits : i <= j
RFind(toks, marks) ==
    LET hits == {i \in 1..Len(toks) : toks[i] \in marks}
    IN  IF hits = {} THEN 0 ELSE CHOOSE i \in hits : \A j \in hits : i >= j

\* s[:-1] on the tail of the text: the last character is dropped.  A one
\* character token disappears, a prose word stays prose, 42 becomes 4 and the
\* serialized object loses its closing brace.
DropLastChar(toks) ==
    IF toks = <<>> THEN <<>>
    ELSE LET n == Len(toks)
             t == toks[n]
             front == SubSeq(toks, 1, n - 1)
         IN  CASE t \in {"{", "}"} -> front
               [] t = "N" -> Append(front, "4")
               [] t = "R" -> Append(front, "R-")
               [] OTHER -> toks

\* Mutant: the slice starts after the three backquotes only, so the tag
\* word json of a tagged fence stays in the interior.
FenceInterior_TagNotSkipped(toks, i) ==
    LET end == Find(toks, FenceTokens, i + 1)
        tag == IF toks[i] = "FJ" THEN <<"w">> ELSE <<>>
    IN  IF end = 0 THEN tag \o DropLastChar(SubSeq(toks, i + 1, Len(toks)))
        ELSE tag \o SubSeq(toks, i + 1, end - 1)

\* raw_output[start:end].strip() where start is just after the fence at index
\* i and end = raw_output.find("```", start), which is -1 when no fence follows.
FenceInterior(toks, i) ==
    LET end == Find(toks, FenceTokens, i + 1)
    IN  IF end = 0 THEN DropLastChar(SubSeq(toks, i + 1, Len(toks)))
        ELSE SubSeq(toks, i + 1, end - 1)

parse_llm_output(raw) ==
    LET toks == raw.toks
        direct == json_loads(toks, raw.rec)
    IN  IF direct.ok THEN direct
        ELSE IF Find(toks, JsonFenceTokens, 1) # 0
             THEN json_loads(FenceInterior(toks, Find(toks, JsonFenceTokens, 1)), raw.rec)
        ELSE IF Find(toks, FenceTokens, 1) # 0
             THEN json_loads(FenceInterior(toks, Find(toks, FenceTokens, 1)), raw.rec)
        ELSE LET start == Find(toks, OpenBraceTokens, 1)
                 end == RFind(toks, CloseBraceTokens)
             IN  IF start # 0 /\ end >= start
                 THEN json_loads(SubSeq(toks, start, end), raw.rec)
                 ELSE Raised("ValueError")

(***************************************************************************)
(* normalize_intent_data and the identifier filling of generate_intent.    *)
(***************************************************************************)
\* Mutant: a bare string is appended as it is.
FixEntity_StringKept(e) ==
    IF e.k = "dict" /\ e.name # "ABSENT" /\ e.type = "ABSENT"
    THEN [e EXCEPT !.type = "ENTITY"]
    ELSE e

\* One entry of entities_involved, as lines 291-301 leave it.
FixEntity(e) ==
    IF e.k = "str" THEN EntryDict("ENTITY", e.name)
    ELSE IF e.name # "ABSENT" /\ e.type = "ABSENT" THEN [e EXCEPT !.type = "ENTITY"]
    ELSE e

\* Mutant: an object entry is appended without the check of line 299.
FixEntities_ObjectsUntouched(items) ==
    LET kept == SelectSeq(items, LAMBDA e : e.k \in {"str", "dict"})
    IN  [i \in 1..Len(kept) |-> IF kept[i].k = "str" THEN FixEntity(kept[i]) ELSE kept[i]]

\* The loop of lines 289-301: strings and dicts are appended, anything else
\* is appended by neither branch.
FixEntities(items) ==
    LET kept == SelectSeq(items, LAMBDA e : e.k \in {"str", "dict"})
    IN  [i \in 1..Len(kept) |-> FixEntity(kept[i])]

NormalizeEntities(ents) ==
    IF ents.k = "list" THEN ListOf(FixEntities(ents.items)) ELSE ents

\* Mutant: a payload with neither key is not wrapped, both keys are added
\* to it as empty objects.
NormalizePayload_NoWrap(p) ==
    IF p.k = "absent" THEN PayloadDict(DictOf({}), DictOf({}), {})
    ELSE IF p.k # "dict" THEN p
    ELSE [p EXCEPT
            !.explicit = IF p.explicit.k = "absent" THEN DictOf({}) ELSE @,
            !.implicit = IF p.implicit.k = "absent" THEN DictOf({}) ELSE @]

\* Lines 304-321.
NormalizePayload(p) ==
    IF p.k = "absent" THEN PayloadDict(DictOf({}), DictOf({}), {})
    ELSE IF p.k # "dict" THEN p
    ELSE IF p.explicit.k = "absent" /\ p.implicit.k = "absent"
         THEN PayloadDict(DictOf(p.rest), DictOf({}), {})
    ELSE [p EXCEPT
            !.explicit = IF p.explicit.k = "absent" THEN DictOf({}) ELSE @,
            !.implicit = IF p.implicit.k = "absent" THEN DictOf({}) ELSE @]

\* Lines 323-337.
NormalizeConstraints(c) ==
    IF c.k = "absent" THEN ConstraintsDict("true", DictOf({}))
    ELSE IF c.k # "dict" THEN c
    ELSE [c EXCEPT
            !.must_not_override_existing = IF @ = "ABSENT" THEN "true" ELSE @,
            !.additional_constraints = IF @.k = "absent" THEN DictOf({}) ELSE @]

\* Mutant: a validation_requirements object is not given the default of
\* duplicate_check.
NormalizeValReqs_NoDuplicateCheck(v) ==
    IF v.k = "absent" THEN ValReqsDict("true", "true", DictOf({}))
    ELSE IF v.k # "dict" THEN v
    ELSE [v EXCEPT
            !.schema_validation = IF @ = "ABSENT" THEN "true" ELSE @,
            !.additional_validations = IF @.k = "absent" THEN DictOf({}) ELSE @]

\* Lines 339-356.
NormalizeValReqs(v) ==
    IF v.k = "absent" THEN ValReqsDict("true", "true", DictOf({}))
    ELSE IF v.k # "dict" THEN v
    ELSE [v EXCEPT
            !.schema_validation = IF @ = "ABSENT" THEN "true" ELSE @,
            !.duplicate_check = IF @ = "ABSENT" THEN "true" ELSE @,
            !.additional_validations = IF @.k = "absent" THEN DictOf({}) ELSE @]

DefaultList(l) == IF l = "ABSENT" THEN "EMPTY" ELSE l

\* Mutant: an absent execution_risk is given the value LOW.
NormalizeDict_InventsRisk(d) ==
    [d EXCEPT
       !.entities_involved = NormalizeEntities(@),
       !.payload = NormalizePayload(@),
       !.constraints = NormalizeConstraints(@),
       !.validation_requirements = NormalizeValReqs(@),
       !.assumptions = DefaultList(@),
       !.ambiguities = DefaultList(@),
       !.suggestions = DefaultList(@),
       !.execution_risk = IF @ = "ABSENT" THEN "LOW" ELSE @]

\* The body of normalize_intent_data on a dict: the keys it looks at; every
\* other key is copied as it is.
NormalizeDict(d) ==
    [d EXCEPT
       !.entities_involved = NormalizeEntities(@),
       !.payload = NormalizePayload(@),
       !.constraints = NormalizeConstraints(@),
       !.validation_requirements = NormalizeValReqs(@),
       !.assumptions = DefaultList(@),
       !.ambiguities = DefaultList(@),
       !.suggestions = DefaultList(@)]

\* intent_data.copy() exists on a dict only.
normalize_intent_data(v) ==
    IF v.k = "dict" THEN Returned(PyDict(NormalizeDict(v.d)))
    ELSE Raised("AttributeError")

\* The argument of normalize_intent_data after the call.  intent_data.copy()
\* is a shallow copy: the top-level keys of the argument stay as they were,
\* but the nested objects are shared with the result, so what lines 300,
\* 317-319, 329-332 and 345-350 store into them shows in the argument too.
\* The argument's list of entities is not the list of the result (line 289
\* builds a new one), its dict entries are the same objects.
AliasedEntities(ents) ==
    IF ents.k = "list"
    THEN ListOf([i \in 1..Len(ents.items) |->
                    IF ents.items[i].k = "dict" THEN FixEntity(ents.items[i])
                    ELSE ents.items[i]])
    ELSE ents

\* Lines 310-313 bind a new object to the key of the copy; lines 317-319
\* store into the argument's payload.
AliasedPayload(p) ==
    IF p.k = "dict" /\ ~(p.explicit.k = "absent" /\ p.implicit.k = "absent")
    THEN NormalizePayload(p)
    ELSE p

AliasedConstraints(c) == IF c.k = "dict" THEN NormalizeConstraints(c) ELSE c

AliasedValReqs(v) == IF v.k = "dict" THEN NormalizeValReqs(v) ELSE v

ArgumentAfterNormalize(d) ==
    [d EXCEPT
       !.entities_involved = AliasedEntities(@),
       !.payload = AliasedPayload(@),
       !.constraints = AliasedConstraints(@),
       !.validation_requirements = AliasedValReqs(@)]

\* Mutant: domain_pack_id is set from the request whether or not the record
\* has the key.
FillIdentifiers_Overwrite(d, domain_pack_id) ==
    [d EXCEPT
       !.intent_id = IF @ = "ABSENT" THEN "uuid4" ELSE @,
       !.domain_pack_id = domain_pack_id]

\* Lines 414-419 of generate_intent.
FillIdentifiers(d, domain_pack_id) ==
    [d EXCEPT
       !.intent_id = IF @ = "ABSENT" THEN "uuid4" ELSE @,
       !.domain_pack_id = IF @ = "ABSENT" THEN domain_pack_id ELSE @]

(***************************************************************************)
(* IntentionSchema: pydantic's validation of the keyword arguments.        *)
(* A field's errors are the field paths pydantic reports, in field order;  *)
(* the validated value keeps the coding of the input.                      *)
(***************************************************************************)
Index == <<"0", "1", "2", "3", "4", "5", "6", "7", "8", "9">>

\* A field of type str.
StrErrors(path, s, required) ==
    IF s = "ABSENT" THEN (IF required THEN <<path>> ELSE <<>>)
    ELSE IF s = "NONSTR" THEN <<path>>
    ELSE <<>>

\* A required field of an Enum type: only the enumeration's values pass.
EnumErrors(path, s, enum) == IF s \in enum THEN <<>> ELSE <<path>>

\* Mutant: the upper bound of confidence is not checked.
ConfidenceErrors_NoUpperBound(c) ==
    IF c.k \in {"num", "numstr"} /\ 0 <= c.n THEN <<>> ELSE <<"confidence">>

\* Mutant: the interval is open, the bounds themselves are rejected.
ConfidenceErrors_OpenInterval(c) ==
    IF c.k \in {"num", "numstr"} /\ 0 < c.n /\ c.n < 10 THEN <<>>
    ELSE <<"confidence">>

\* confidence: float, ge=0.0, le=1.0, and validate_confidence.  A numeric
\* string is converted to a float; nothing is clamped.
ConfidenceErrors(c) ==
    IF c.k \in {"num", "numstr"} /\ 0 <= c.n /\ c.n <= 10 THEN <<>>
    ELSE <<"confidence">>

ConfidenceValue(c) == IF c.k = "numstr" THEN Num(c.n) ELSE c

\* A field of type Dict[str, Any] with default_factory=dict.
DictErrors(path, v) == IF v.k \in {"absent", "dict"} THEN <<>> ELSE <<path>>
DictValue(v) == IF v.k = "absent" THEN DictOf({}) ELSE v

\* A field of type bool with default True.
BoolErrors(path, b) == IF b = "NONBOOL" THEN <<path>> ELSE <<>>
BoolValue(b) == IF b = "ABSENT" THEN "true" ELSE b

\* A field of type List[str] with default_factory=list.
ListErrors(path, l) == IF l = "BAD" THEN <<path>> ELSE <<>>

RECURSIVE Flatten(_)
Flatten(seqs) == IF seqs = <<>> THEN <<>> ELSE Head(seqs) \o Flatten(Tail(seqs))

\* EntityInvolved: type and name are required strings.
EntityErrors(path, e) ==
    IF e.k # "dict" THEN <<path>>
    ELSE StrErrors(path \o ".type", e.type, TRUE)
         \o StrErrors(path \o ".name", e.name, TRUE)

EntitiesErrors(ents) ==
    IF ents.k = "absent" THEN <<>>
    ELSE IF ents.k # "list" THEN <<"entities_involved">>
    ELSE Flatten([i \in 1..Len(ents.items) |->
                     EntityErrors("entities_involved." \o Index[i], ents.items[i])])

EntitiesValue(ents) == IF ents.k = "absent" THEN ListOf(<<>>) ELSE ents

\* IntentPayload; the field itself is required.
PayloadErrors(p) ==
    IF p.k # "dict" THEN <<"payload">>
    ELSE DictErrors("payload.explicit", p.explicit)
         \o DictErrors("payload.implicit", p.implicit)

PayloadValue(p) ==
    [k |-> p.k, explicit |-> DictValue(p.explicit), implicit |-> DictValue(p.implicit)]

\* IntentConstraints, default_factory=IntentConstraints.
ConstraintsErrors(c) ==
    IF c.k = "absent" THEN <<>>
    ELSE IF c.k # "dict" THEN <<"constraints">>
    ELSE BoolErrors("constraints.must_not_override_existing",
                    c.must_not_override_existing)
         \o DictErrors("constraints.additional_constraints", c.additional_constraints)

ConstraintsValue(c) ==
    [k |-> IF c.k = "absent" THEN "dict" ELSE c.k,
     must_not_override_existing |-> BoolValue(c.must_not_override_existing),
     additional_constraints |-> DictValue(c.additional_constraints)]

\* ValidationRequirements, default_factory=ValidationRequirements.
ValReqsErrors(v) ==
    IF v.k = "absent" THEN <<>>
    ELSE IF v.k # "dict" THEN <<"validation_requirements">>
    ELSE BoolErrors("validation_requirements.schema_validation", v.schema_validation)
         \o BoolErrors("validation_requirements.duplicate_check", v.duplicate_check)
         \o DictErrors("validation_requirements.additional_validations",
                       v.additional_validations)

ValReqsValue(v) ==
    [k |-> IF v.k = "absent" THEN "dict" ELSE v.k,
     schema_validation |-> BoolValue(v.schema_validation),
     duplicate_check |-> BoolValue(v.duplicate_check),
     additional_validations |-> DictValue(v.additional_validations)]

\* The field errors of IntentionSchema(**d), in the order of the fields.
SchemaErrors(d) ==
    StrErrors("intent_id", d.intent_id, FALSE)
    \o StrErrors("domain_pack_id", d.domain_pack_id, TRUE)
    \o EnumErrors("target_section", d.target_section, TargetSection)
    \o EnumErrors("operation", d.operation, Operation)
    \o StrErrors("intent_summary", d.intent_summary, TRUE)
    \o ConfidenceErrors(d.confidence)
    \o EntitiesErrors(d.entities_involved)
    \o PayloadErrors(d.payload)
    \o ConstraintsErrors(d.constraints)
    \o ListErrors("assumptions", d.assumptions)
    \o ListErrors("ambiguities", d.ambiguities)
    \o ListErrors("suggestions", d.suggestions)
    \o ValReqsErrors(d.validation_requirements)
    \o EnumErrors("execution_risk", d.execution_risk, ExecutionRisk)

\* Mutant: the default factory of intent_id runs whether or not a value is
\* given.
SchemaValue_FreshIntentId(d) ==
    [intent_id |-> IF d.intent_id = "uuid4" THEN "uuid4-2" ELSE "uuid4",
     domain_pack_id |-> d.domain_pack_id,
     target_section |-> d.target_section,
     operation |-> d.operation,
     intent_summary |-> d.intent_summary,
     confidence |-> ConfidenceValue(d.confidence),
     entities_involved |-> EntitiesValue(d.entities_involved),
     payload |-> PayloadValue(d.payload),
     constraints |-> ConstraintsValue(d.constraints),
     assumptions |-> DefaultList(d.assumptions),
     ambiguities |-> DefaultList(d.ambiguities),
     suggestions |-> DefaultList(d.suggestions),
     validation_requirements |-> ValReqsValue(d.validation_requirements),
     execution_risk |-> d.execution_risk]

\* The model instance IntentionSchema(**d) builds: defaults filled,
\* convertible values converted, unknown keys ignored.
SchemaValue(d) ==
    [intent_id |-> IF d.intent_id = "ABSENT" THEN "uuid4" ELSE d.intent_id,
     domain_pack_id |-> d.domain_pack_id,
     target_section |-> d.target_section,
     operation |-> d.operation,
     intent_summary |-> d.intent_summary,
     confidence |-> ConfidenceValue(d.confidence),
     entities_involved |-> EntitiesValue(d.entities_involved),
     payload |-> PayloadValue(d.payload),
     constraints |-> ConstraintsValue(d.constraints),
     assumptions |-> DefaultList(d.assumptions),
     ambiguities |-> DefaultList(d.ambiguities),
     suggestions |-> DefaultList(d.suggestions),
     validation_requirements |-> ValReqsValue(d.validation_requirements),
     execution_risk |-> d.execution_risk]

IntentionSchema(d) ==
    LET errors == SchemaErrors(d)
    IN  [ok |-> errors = <<>>, errors |-> errors, model |-> SchemaValue(d)]

\* BaseModel.model_dump(): the field values of a model instance as keyword
\* arguments, one key per field and no other key.
model_dump(m) ==
    [intent_id |-> m.intent_id,
     domain_pack_id |-> m.domain_pack_id,
     target_section |-> m.target_section,
     operation |-> m.operation,
     intent_summary |-> m.intent_summary,
     confidence |-> m.confidence,
     entities_involved |-> m.entities_involved,
     payload |-> PayloadDict(m.payload.explicit, m.payload.implicit, {}),
     constraints |-> m.constraints,
     assumptions |-> m.assumptions,
     ambiguities |-> m.ambiguities,
     suggestions |-> m.suggestions,
     validation_requirements |-> m.validation_requirements,
     execution_risk |-> m.execution_risk,
     extra |-> {}]

(***************************************************************************)
(* Configuration and provider selection.                                   *)
(***************************************************************************)
\* An Optional[str] key is None ("NONE"), the empty string, or a key.
ProviderNames == {"groq", "Groq", "openai", "anthropic", "mistral"}
SettingsChoices ==
    [LLM_PROVIDER : ProviderNames,
     OPENAI_API_KEY : {"NONE", "sk-o"},
     GROQ_API_KEY : {"NONE", "", "gsk"},
     ANTHROPIC_API_KEY : {"NONE", "sk-a"}]

\* str.lower() on the provider names of the model.
Lower(name) == IF name = "Groq" THEN "groq" ELSE name

\* Python truthiness of an Optional[str].
Truthy(key) == key \notin {"NONE", ""}

\* The provider constructors: the key is checked before the client is built.
OpenAIProvider(s) ==
    IF ~Truthy(s.OPENAI_API_KEY) THEN Raised("ValueError") ELSE Returned(PyNone)
\* Mutant: the Groq constructor does not check its key.
GroqProvider_NoKeyCheck(s) == Returned(PyNone)
GroqProvider(s) ==
    IF ~Truthy(s.GROQ_API_KEY) THEN Raised("ValueError") ELSE Returned(PyNone)
AnthropicProvider(s) ==
    IF ~Truthy(s.ANTHROPIC_API_KEY) THEN Raised("ValueError") ELSE Returned(PyNone)

get_llm_provider(s) ==
    LET provider_name == Lower(s.LLM_PROVIDER)
    IN  IF provider_name = "openai" THEN OpenAIProvider(s)
        ELSE IF provider_name = "groq" THEN GroqProvider(s)
        ELSE IF provider_name = "anthropic" THEN AnthropicProvider(s)
        ELSE Raised("ValueError")

(***************************************************************************)
(* The retry decorator of generate:                                        *)
(*   @retry(stop=stop_after_attempt(3),                                    *)
(*          wait=wait_exponential(multiplier=1, min=2, max=10))            *)
(***************************************************************************)
Max(a, b) == IF a >= b THEN a ELSE b
Min(a, b) == IF a <= b THEN a ELSE b

\* Mutant: the floor of the wait is not applied.
wait_exponential_NoFloor(attempt_number) ==
    Min(wait_multiplier * 2 ^ (attempt_number - 1), wait_max)

\* The sleep after failed attempt number attempt_number.
wait_exponential(attempt_number) ==
    Max(Max(0, wait_min), Min(wait_multiplier * 2 ^ (attempt_number - 1), wait_max))

\* Mutant: the stop condition is off by one.
ShouldStop_OffByOne(attempt_number) == attempt_number > stop_after_attempt

\* stop_after_attempt(3): no further attempt once this many were made.
ShouldStop(attempt_number) == attempt_number >= stop_after_attempt

\* Mutant: reraise=True, the last attempt's exception leaves as it is.
RetryExhausted_Reraise(last_exc) == [cls |-> last_exc, cause |-> ""]

\* What leaves the decorated generate when the retries stop: reraise is not
\* set, so the last attempt's exception is wrapped in a RetryError.
RetryExhausted(last_exc) == [cls |-> "RetryError", cause |-> last_exc]

\* An exception that propagates as it is.
Exc(cls) == [cls |-> cls, cause |-> ""]
NoExc == [cls |-> "", cause |-> ""]

\* What a backend invocation can raise.
BackendErrors == {"APITimeoutError", "ValueError"}

(***************************************************************************)
(* interpret_intent: the classification of failures and the responses.     *)
(***************************************************************************)
\* Python's class hierarchy: json.JSONDecodeError derives from ValueError.
IsValueError(cls) == cls \in {"ValueError", "JSONDecodeError"}

NoModel == SchemaValue(EmptyDoc)

NoResponse ==
    [status |-> "none", error |-> "", confidence |-> -1, intent |-> NoModel,
     message |-> "", validation_errors |-> <<>>, llm_output |-> PyNone]

\* HTTPException(500, detail={"error": ..., "confidence": 0.0, ...}).
ErrorDetail(code, confidence) ==
    [NoResponse EXCEPT !.status = "error", !.error = code, !.confidence = confidence]

\* The except clauses around generate_intent (lines 81-102).
GenerateIntentFailed(exc) ==
    IF IsValueError(exc.cls) THEN ErrorDetail("LLM_CONFIGURATION_ERROR", 0)
    ELSE ErrorDetail("LLM_API_ERROR", 0)

\* Mutant: the schema-error detail carries no confidence.
ValidationFailed_NoConfidence(errors, data) ==
    [NoResponse EXCEPT !.status = "error", !.error = "INVALID_INTENT_SCHEMA",
                       !.validation_errors = errors, !.llm_output = data]

\* Mutant: the schema-error detail carries no details.
ValidationFailed_NoDetails(errors, data) == ErrorDetail("INVALID_INTENT_SCHEMA", 0)

\* The except ValidationError clause (lines 122-139).
ValidationFailed(errors, data) ==
    [ErrorDetail("INVALID_INTENT_SCHEMA", 0) EXCEPT
       !.validation_errors = errors, !.llm_output = data]

\* IntentResponse(intent=intent_schema, message="Intent parsed successfully").
IntentResponse(model) ==
    [NoResponse EXCEPT !.status = "success", !.intent = model,
                       !.message = "Intent parsed successfully"]

\* Mutant: a confidence of exactly 0.5 is logged as low.
Warnings_HalfIsLow(model) ==
    (IF model.confidence.n <= 5 THEN <<"Low confidence intent">> ELSE <<>>)
    \o (IF model.ambiguities # "EMPTY" THEN <<"Ambiguities detected">> ELSE <<>>)
    \o (IF model.execution_risk = "HIGH" THEN <<"High execution risk detected">>
        ELSE <<>>)

\* Lines 110-115: the logger.warning calls after a successful validation.
Warnings(model) ==
    (IF model.confidence.n < 5 THEN <<"Low confidence intent">> ELSE <<>>)
    \o (IF model.ambiguities # "EMPTY" THEN <<"Ambiguities detected">> ELSE <<>>)
    \o (IF model.execution_risk = "HIGH" THEN <<"High execution risk detected">>
        ELSE <<>>)

(***************************************************************************)
(* intent_health_check.                                                    *)
(***************************************************************************)
NoHealth == [status |-> "none", llm_provider |-> "", api_key_configured |-> FALSE,
             message |-> ""]

\* Mutant: any key that is set counts, whichever provider is selected.
intent_health_check_AnyKey(s, loads) ==
    IF ~loads
    THEN [NoHealth EXCEPT !.status = "unhealthy", !.message = "Configuration error"]
    ELSE LET configured == \/ Truthy(s.OPENAI_API_KEY)
                           \/ Truthy(s.GROQ_API_KEY)
                           \/ Truthy(s.ANTHROPIC_API_KEY)
         IN  [status |-> IF configured THEN "healthy" ELSE "degraded",
              llm_provider |-> Lower(s.LLM_PROVIDER),
              api_key_configured |-> configured,
              message |-> IF configured THEN "LLM service configured"
                          ELSE "LLM API key not configured"]

\* Lines 196-225.  loads is whether the statements of the try block run
\* without an exception (the first is the import of core.config.settings);
\* an exception is answered by the except clause with status unhealthy.
intent_health_check(s, loads) ==
    IF ~loads
    THEN [NoHealth EXCEPT !.status = "unhealthy", !.message = "Configuration error"]
    ELSE LET provider == Lower(s.LLM_PROVIDER)
             api_key_configured ==
                 \/ provider = "openai" /\ Truthy(s.OPENAI_API_KEY)
                 \/ provider = "groq" /\ Truthy(s.GROQ_API_KEY)
                 \/ provider = "anthropic" /\ Truthy(s.ANTHROPIC_API_KEY)
         IN  [status |-> IF api_key_configured THEN "healthy" ELSE "degraded",
              llm_provider |-> provider,
              api_key_configured |-> api_key_configured,
              message |-> IF api_key_configured THEN "LLM service configured"
                          ELSE "LLM API key not configured"]

(***************************************************************************)
(* The state machine of one request.                                       *)
(***************************************************************************)
NoText == [toks |-> <<>>, rec |-> EmptyDoc]
Text(toks, rec) == [toks |-> toks, rec |-> rec]

RequestIds == {"Legal_v01", "Med_v02"}
Requests == [domain_pack_id : RequestIds]

\* What the backends of the pipeline specification answer.
ReplyTexts ==
    {<<"R">>, <<"w", "FJ", "R", "F", "w">>, <<"F", "R", "F">>, <<"w", "R", "w">>,
     <<"w">>, <<"N">>, <<"FJ", "w", "F", "R">>}
ReplyDocs ==
    {CanonicalDoc, MinimalDoc, SampleDoc,
     [CanonicalDoc EXCEPT !.confidence = Num(11)],
     [MinimalDoc EXCEPT !.entities_involved = ListOf(<<EntryOther, EntryStr("CLIENT")>>)]}
Replies ==
    {Text(t, d) : t \in {x \in ReplyTexts : \E i \in 1..Len(x) : x[i] = "R"}, d \in ReplyDocs}
    \cup {Text(t, EmptyDoc) : t \in {x \in ReplyTexts : \A i \in 1..Len(x) : x[i] # "R"}}

Init ==
    /\ settings \in SettingsChoices
    /\ request \in Requests
    /\ pc = "get_llm_provider"
    /\ attempts = 0
    /\ delays = <<>>
    /\ calls = <<>>
    /\ raw_output = NoText
    /\ extracted = PyNone
    /\ intent_data = PyNone
    /\ raised = NoExc
    /\ response = NoResponse
    /\ warnings = <<>>
    /\ health = NoHealth
    /\ cancelled = FALSE

\* An exception leaves generate_intent at position pc and is answered.
Fail(exc) ==
    /\ raised' = exc
    /\ response' = GenerateIntentFailed(exc)
    /\ pc' = "failed_" \o pc

\* provider = get_llm_provider()
SelectProvider ==
    /\ pc = "get_llm_provider"
    /\ LET r == get_llm_provider(settings)
       IN  IF r.ok THEN pc' = "generate" /\ UNCHANGED <<raised, response>>
           ELSE Fail(Exc(r.exc))
    /\ UNCHANGED <<settings, request, attempts, delays, calls, raw_output,
                   extracted, intent_data>>
    /\ UNCHANGED <<warnings, health, cancelled>>

\* One invocation of the backend that returns text.
BackendReturns ==
    /\ pc = "generate"
    /\ \E reply \in Replies :
          /\ raw_output' = reply
          /\ attempts' = attempts + 1
          /\ calls' = Append(calls, "ok")
          /\ pc' = "parse_llm_output"
    /\ UNCHANGED <<settings, request, delays, extracted, intent_data, raised, response>>
    /\ UNCHANGED <<warnings, health, cancelled>>

\* One invocation of the backend that raises: the decorator sleeps and
\* calls again, or stops.
BackendRaises ==
    /\ pc = "generate"
    /\ \E e \in BackendErrors :
          /\ attempts' = attempts + 1
          /\ calls' = Append(calls, e)
          /\ IF ShouldStop(attempts + 1) THEN Fail(RetryExhausted(e))
             ELSE pc' = "sleep" /\ UNCHANGED <<raised, response>>
    /\ UNCHANGED <<settings, request, delays, raw_output, extracted, intent_data>>
    /\ UNCHANGED <<warnings, health, cancelled>>

\* The backoff sleep between two attempts.
Backoff ==
    /\ pc = "sleep"
    /\ delays' = Append(delays, wait_exponential(attempts))
    /\ pc' = "generate"
    /\ UNCHANGED <<settings, request, attempts, calls, raw_output, extracted,
                   intent_data, raised, response>>
    /\ UNCHANGED <<warnings, health, cancelled>>

\* Mutant: a text from which nothing can be extracted sends the request back
\* to the backend.
Extract_RetriesOnFailure ==
    /\ pc = "parse_llm_output"
    /\ LET r == parse_llm_output(raw_output)
       IN  IF r.ok
           THEN /\ extracted' = r.v
                /\ intent_data' = r.v
                /\ pc' = "normalize_intent_data"
                /\ UNCHANGED <<raised, response, attempts, calls>>
           ELSE /\ IF ShouldStop(attempts) THEN Fail(Exc(r.exc))
                   ELSE pc' = "generate" /\ UNCHANGED <<raised, response>>
                /\ calls' = [calls EXCEPT ![Len(calls)] = r.exc]
                /\ UNCHANGED <<extracted, intent_data, attempts>>
    /\ UNCHANGED <<settings, request, delays, raw_output>>
    /\ UNCHANGED <<warnings, health, cancelled>>

\* intent_data = parse_llm_output(raw_output)
Extract ==
    /\ pc = "parse_llm_output"
    /\ LET r == parse_llm_output(raw_output)
       IN  IF r.ok
           THEN /\ extracted' = r.v
                /\ intent_data' = r.v
                /\ pc' = "normalize_intent_data"
                /\ UNCHANGED <<raised, response>>
           ELSE Fail(Exc(r.exc)) /\ UNCHANGED <<extracted, intent_data>>
    /\ UNCHANGED <<settings, request, attempts, delays, calls, raw_output>>
    /\ UNCHANGED <<warnings, health, cancelled>>

\* intent_data = normalize_intent_data(intent_data): the name is bound to the
\* result, and the object parse_llm_output returned, which was the argument,
\* is left as the call left it.
Normalize ==
    /\ pc = "normalize_intent_data"
    /\ LET r == normalize_intent_data(intent_data)
       IN  IF r.ok
           THEN /\ intent_data' = r.v
                /\ extracted' = PyDict(ArgumentAfterNormalize(intent_data.d))
                /\ pc' = "fill_identifiers"
                /\ UNCHANGED <<raised, response>>
           ELSE Fail(Exc(r.exc)) /\ UNCHANGED <<intent_data, extracted>>
    /\ UNCHANGED <<settings, request, attempts, delays, calls, raw_output>>
    /\ UNCHANGED <<warnings, health, cancelled>>

\* Lines 414-422: the identifiers are set and generate_intent returns.
FillIds ==
    /\ pc = "fill_identifiers"
    /\ intent_data' = PyDict(FillIdentifiers(intent_data.d, request.domain_pack_id))
    /\ pc' = "validate"
    /\ UNCHANGED <<settings, request, attempts, delays, calls, raw_output,
                   extracted, raised, response>>
    /\ UNCHANGED <<warnings, health, cancelled>>

\* Lines 104-139: IntentionSchema(**intent_data), the warnings, then the
\* answer.
Validate ==
    /\ pc = "validate"
    /\ LET v == IntentionSchema(intent_data.d)
       IN  IF v.ok
           THEN /\ warnings' = warnings \o Warnings(v.model)
                /\ response' = IntentResponse(v.model)
                /\ pc' = "succeeded"
           ELSE /\ response' = ValidationFailed(v.errors, intent_data)
                /\ pc' = "failed_validate"
                /\ UNCHANGED warnings
    /\ UNCHANGED <<settings, request, attempts, delays, calls, raw_output,
                   extracted, intent_data, raised, health, cancelled>>

\* The handlers are coroutines of one event loop (main.py starts one uvicorn
\* process), which runs a coroutine until it awaits or returns.
\* interpret_intent awaits nothing: generate_intent, the client's create call
\* and the retry decorator's sleep are synchronous calls.  So from the moment
\* interpret_intent has begun until it has answered, the event loop runs
\* nothing else.
EventLoopFree ==
    pc \in {"get_llm_provider", "succeeded", "failed_get_llm_provider",
            "failed_generate", "failed_parse_llm_output",
            "failed_normalize_intent_data", "failed_validate"}

\* A concurrent GET /intent/health is served.
HealthCheck ==
    /\ EventLoopFree
    /\ health = NoHealth
    /\ \E loads \in BOOLEAN : health' = intent_health_check(settings, loads)
    /\ UNCHANGED <<settings, request, pc, attempts, delays, calls, raw_output,
                   extracted, intent_data, raised, response, warnings, cancelled>>

\* The client of the request in flight disconnects.  No statement of
\* interpret_intent, generate_intent or generate looks at the connection.
ClientDisconnects ==
    /\ ~EventLoopFree
    /\ ~cancelled
    /\ cancelled' = TRUE
    /\ UNCHANGED <<settings, request, pc, attempts, delays, calls, raw_output,
                   extracted, intent_data, raised, response, warnings, health>>

Next ==
    \/ SelectProvider
    \/ BackendReturns
    \/ BackendRaises
    \/ Backoff
    \/ Extract
    \/ Normalize
    \/ FillIds
    \/ Validate
    \/ HealthCheck
    \/ ClientDisconnects

Spec == Init /\ [][Next]_vars

(***************************************************************************)
(* The pipeline from the moment a well-configured backend has answered on  *)
(* its first invocation: the argument of parse_llm_output is drawn from a  *)
(* bounded set and the remaining steps are applied to it.                  *)
(***************************************************************************)
DefaultSettings ==
    [LLM_PROVIDER |-> "groq", OPENAI_API_KEY |-> "NONE", GROQ_API_KEY |-> "gsk",
     ANTHROPIC_API_KEY |-> "NONE"]

Answered(requests, texts) ==
    /\ settings = DefaultSettings
    /\ request \in requests
    /\ pc = "parse_llm_output"
    /\ attempts = 1
    /\ delays = <<>>
    /\ calls = <<"ok">>
    /\ raw_output \in texts
    /\ extracted = PyNone
    /\ intent_data = PyNone
    /\ raised = NoExc
    /\ response = NoResponse
    /\ warnings = <<>>
    /\ health = NoHealth
    /\ cancelled = FALSE

\* Every text of the bounded alphabet, carrying the object {"a": 1}.
InitExtract == Answered({[domain_pack_id |-> "Legal_v01"]}, {Text(t, SampleDoc) : t \in AllTexts})
NextExtract == Extract
SpecExtract == InitExtract /\ [][NextExtract]_vars

\* Every object of Docs, returned as pure JSON.
InitRecord == Answered(Requests, {Text(<<"R">>, d) : d \in Docs})
NextRecord == Extract \/ Normalize \/ FillIds \/ Validate
SpecRecord == InitRecord /\ [][NextRecord]_vars

(***************************************************************************)
(* Claims.                                                                 *)
(***************************************************************************)
FailedPcs ==
    {"failed_get_llm_provider", "failed_generate", "failed_parse_llm_output",
     "failed_normalize_intent_data", "failed_validate"}
ErrorCodes ==
    {"LLM_CONFIGURATION_ERROR", "LLM_API_ERROR", "INVALID_INTENT_SCHEMA",
     "INTERNAL_ERROR"}
IsString(s) == s \notin {"ABSENT", "NONSTR"}
IsBool(b) == b \in {"true", "false"}

\* C1: whenever /intent answers with success, the returned intent satisfies
\* every schema invariant: target_section, operation and execution_risk are
\* one value of their enumerations, confidence is a number in [0.0, 1.0],
\* every entities_involved element carries a type and a name, and payload,
\* constraints and validation_requirements have all their fields.
C1_SuccessIntentWellFormed ==
    response.status = "success" =>
        LET m == response.intent
        IN  /\ m.target_section \in TargetSection
            /\ m.operation \in Operation
            /\ m.execution_risk \in ExecutionRisk
            /\ m.confidence.k = "num" /\ 0 <= m.confidence.n /\ m.confidence.n <= 10
            /\ m.entities_involved.k = "list"
            /\ \A i \in 1..Len(m.entities_involved.items) :
                  LET e == m.entities_involved.items[i]
                  IN  e.k = "dict" /\ IsString(e.type) /\ IsString(e.name)
            /\ m.payload.k = "dict"
            /\ m.payload.explicit.k = "dict" /\ m.payload.implicit.k = "dict"
            /\ m.constraints.k = "dict"
            /\ IsBool(m.constraints.must_not_override_existing)
            /\ m.constraints.additional_constraints.k = "dict"
            /\ m.validation_requirements.k = "dict"
            /\ IsBool(m.validation_requirements.schema_validation)
            /\ IsBool(m.validation_requirements.duplicate_check)
            /\ m.validation_requirements.additional_validations.k = "dict"

\* C1 witness: the minimally-shaped object (bare-string entity, flat payload,
\* no constraints, no validation_requirements) was answered with success.
C1_Witness ==
    /\ pc = "succeeded"
    /\ response.status = "success"
    /\ raw_output.rec = MinimalDoc

\* C2: every failure outcome of /intent, whatever stage failed, is an error
\* response that carries confidence 0.0 and one error code; a failing request
\* never yields a success response, and success is answered only after
\* validation passed.
C2_FailureIsZeroConfidenceError ==
    /\ pc \in FailedPcs =>
          /\ response.status = "error"
          /\ response.confidence = 0
          /\ response.error \in ErrorCodes
    /\ response.status = "success" => pc = "succeeded"
    /\ pc \notin FailedPcs \cup {"succeeded"} => response.status = "none"

\* C2 witness: a record with confidence 1.1 failed validation and was answered
\* with the schema error.
C2_Witness ==
    /\ pc = "failed_validate"
    /\ response.error = "INVALID_INTENT_SCHEMA"
    /\ response.validation_errors = <<"confidence">>

\* C3: a provider-selection failure is reported as LLM_CONFIGURATION_ERROR, a
\* backend call that fails on every attempt as LLM_API_ERROR, and a
\* normalized record that fails validation as INVALID_INTENT_SCHEMA.
C3_FailureCodeOfStage ==
    /\ pc = "failed_get_llm_provider" => response.error = "LLM_CONFIGURATION_ERROR"
    /\ pc = "failed_generate" => response.error = "LLM_API_ERROR"
    /\ pc = "failed_validate" => response.error = "INVALID_INTENT_SCHEMA"

\* C3 witness: the backend raised a ValueError on each of the three attempts
\* and the failure was answered.
C3_Witness ==
    /\ pc = "failed_generate"
    /\ calls = <<"ValueError", "ValueError", "ValueError">>
    /\ response.error = "LLM_API_ERROR"

\* C4 (the claim as stated): an extraction failure is answered with
\* confidence 0.0 and with neither LLM_CONFIGURATION_ERROR nor
\* INVALID_INTENT_SCHEMA.
C4_ExtractionFailureDistinct ==
    pc = "failed_parse_llm_output" =>
        /\ response.status = "error"
        /\ response.confidence = 0
        /\ response.error \notin {"LLM_CONFIGURATION_ERROR", "INVALID_INTENT_SCHEMA"}

\* The selected variant is unsupported, or its credential is None or empty.
ProviderUnusable ==
    \/ settings.LLM_PROVIDER \in {"groq", "Groq"} /\ settings.GROQ_API_KEY \in {"NONE", ""}
    \/ settings.LLM_PROVIDER = "openai" /\ settings.OPENAI_API_KEY \in {"NONE", ""}
    \/ settings.LLM_PROVIDER = "anthropic" /\ settings.ANTHROPIC_API_KEY \in {"NONE", ""}
    \/ settings.LLM_PROVIDER \notin {"groq", "Groq", "openai", "anthropic"}

\* C5: when the configured variant is unsupported or its credential is
\* absent, the request fails with the configuration error before any backend
\* invocation: no call attempt is made, no backoff delay is taken, and the
\* request never leaves provider selection except into that failure.
C5_ConfigurationFailsFast ==
    ProviderUnusable =>
        /\ attempts = 0 /\ calls = <<>> /\ delays = <<>>
        /\ pc \in {"get_llm_provider", "failed_get_llm_provider"}
        /\ pc = "failed_get_llm_provider" =>
              /\ response.status = "error"
              /\ response.error = "LLM_CONFIGURATION_ERROR"
              /\ raised = Exc("ValueError")

\* C5 witness: groq is selected with an empty GROQ_API_KEY while another
\* variant's key is present, and the request has failed.
C5_Witness ==
    /\ pc = "failed_get_llm_provider"
    /\ settings.LLM_PROVIDER = "groq"
    /\ settings.GROQ_API_KEY = ""
    /\ settings.OPENAI_API_KEY = "sk-o"
    /\ attempts = 0

\* C6: the backend is invoked at most 3 times for one request; only the last
\* invocation can have succeeded (a success ends the loop); a failure of any
\* kind, a timeout included, is followed by a further attempt while fewer
\* than 3 were made; the failure is surfaced after exactly 3 failed attempts.
C6_AtMostThreeAttempts ==
    /\ attempts <= 3
    /\ Len(calls) = attempts
    /\ \A i \in 1..Len(calls) : calls[i] = "ok" => i = Len(calls)
    /\ \A i \in 1..Len(calls) : calls[i] = "ok" => pc # "generate" /\ pc # "sleep"
    /\ (calls # <<>> /\ calls[Len(calls)] # "ok" /\ attempts < 3) =>
          pc \in {"sleep", "generate"}
    /\ pc = "failed_generate" =>
          attempts = 3 /\ \A i \in 1..3 : calls[i] \in BackendErrors

\* C6 witness: three attempts failed, the first by a timeout, and the failure
\* was surfaced.
C6_Witness ==
    /\ pc = "failed_generate"
    /\ attempts = 3
    /\ calls[1] = "APITimeoutError"

\* The number of attempts that failed and were followed by a sleep.
SleepsDue ==
    IF attempts = 0 THEN 0
    ELSE IF pc = "generate" THEN attempts
    ELSE attempts - 1

\* C7: a backend that fails twice and then succeeds completes with exactly 3
\* attempts; a backoff delay is taken only between a failed attempt and the
\* next attempt; each delay lies between 2s and 10s; the delays are
\* non-decreasing.
C7_BackoffDelays ==
    /\ Len(delays) = SleepsDue
    /\ \A i \in 1..Len(delays) : 2 <= delays[i] /\ delays[i] <= 10
    /\ \A i \in 1..Len(delays) : \A j \in i..Len(delays) : delays[i] <= delays[j]
    /\ (Len(calls) = 3 /\ calls[3] = "ok") =>
          /\ attempts = 3
          /\ calls[1] # "ok" /\ calls[2] # "ok"
          /\ Len(delays) = 2
          /\ raw_output # NoText
          /\ pc # "failed_generate"

\* C7 witness: two failures, then a success, and the request succeeded.
C7_Witness ==
    /\ pc = "succeeded"
    /\ calls = <<"APITimeoutError", "APITimeoutError", "ok">>
    /\ delays = <<2, 2>>

\* C8 (the claim as stated): when the attempts are exhausted, the exception
\* that leaves generate is the last attempt's exception itself.
C8_LastFailureUnchanged ==
    pc = "failed_generate" => raised = Exc(calls[Len(calls)])

\* The four attempts of the extractor on the text just parsed, in the order
\* the claim gives them, each computed as the code computes it.
AttemptWhole == json_loads(raw_output.toks, raw_output.rec)
AttemptJsonFence ==
    LET i == Find(raw_output.toks, JsonFenceTokens, 1)
    IN  IF i = 0 THEN Raised("JSONDecodeError")
        ELSE json_loads(FenceInterior(raw_output.toks, i), raw_output.rec)
AttemptAnyFence ==
    LET i == Find(raw_output.toks, FenceTokens, 1)
    IN  IF i = 0 THEN Raised("JSONDecodeError")
        ELSE json_loads(FenceInterior(raw_output.toks, i), raw_output.rec)
AttemptBraces ==
    LET start == Find(raw_output.toks, OpenBraceTokens, 1)
        end == RFind(raw_output.toks, CloseBraceTokens)
    IN  IF start # 0 /\ end >= start
        THEN json_loads(SubSeq(raw_output.toks, start, end), raw_output.rec)
        ELSE Raised("ValueError")
FirstSuccess ==
    IF AttemptWhole.ok THEN AttemptWhole
    ELSE IF AttemptJsonFence.ok THEN AttemptJsonFence
    ELSE IF AttemptAnyFence.ok THEN AttemptAnyFence
    ELSE AttemptBraces

\* C9 (the claim as stated): the extractor returns the result of the first of
\* the four attempts that succeeds, and fails only if all four fail.
C9_FirstSuccessWins ==
    /\ pc = "normalize_intent_data" => FirstSuccess.ok /\ extracted = FirstSuccess.v
    /\ pc = "failed_parse_llm_output" => ~FirstSuccess.ok

\* C10: for a text that holds, after any words that hold no json-tagged
\* fence, a json-tagged fence, then a JSON object, then a fence, then any
\* words, extraction yields exactly the object inside the fences.
C10_JsonFenceYieldsRecord ==
    pc # "parse_llm_output" =>
        \A i, j \in 1..Len(raw_output.toks) :
            LET toks == raw_output.toks
                interior == SubSeq(toks, i + 1, j - 1)
            IN  ( /\ i < j
                  /\ toks[i] = "FJ" /\ \A h \in 1..(i - 1) : toks[h] # "FJ"
                  /\ toks[j] \in {"F", "FJ"}
                  /\ interior \in {<<"R">>, <<"{", "}">>} )
                => /\ pc = "normalize_intent_data"
                   /\ extracted = PyDict(IF interior = <<"R">> THEN raw_output.rec
                                          ELSE EmptyDoc)

\* C10 witness: the text  noise ```json {"a":1} ``` trailing  was extracted
\* to the object {"a": 1}.
C10_Witness ==
    /\ raw_output = Text(<<"w", "FJ", "R", "F", "w">>, SampleDoc)
    /\ pc = "normalize_intent_data"
    /\ extracted = PyDict(SampleDoc)
    /\ extracted.d.extra = {"a"}

\* The text holds no brace character and no fence.
NoBraceNoFence ==
    \A i \in 1..Len(raw_output.toks) : raw_output.toks[i] \in {"w", "N"}

\* C11 (the claim as stated): for every text that holds no brace and no
\* fence, extraction fails with the extraction error and returns no value.
C11_NoBraceNoFenceFails ==
    (pc # "parse_llm_output" /\ NoBraceNoFence) =>
        /\ pc = "failed_parse_llm_output"
        /\ raised = Exc("ValueError")
        /\ extracted = PyNone

\* C12 (the claim as stated): whenever the extractor returns, the value it
\* returns is a JSON object, never a list, number, string or null.
C12_ReturnsOneRecord ==
    pc = "normalize_intent_data" => extracted.k = "dict"

\* The end-to-end example: the request for Legal_v01 was answered by the
\* backend with the minimally-shaped object as pure JSON.
MinimalExample ==
    /\ request.domain_pack_id = "Legal_v01"
    /\ raw_output = Text(<<"R">>, MinimalDoc)

Normalized == pc \in {"fill_identifiers", "validate", "succeeded", "failed_validate"}

\* C14: without a payload key the normalized payload is {explicit: {},
\* implicit: {}}; a payload object with neither explicit nor implicit becomes
\* {explicit: the whole original payload, implicit: {}}; a payload object
\* with exactly one of the two gets the other as an empty object and the one
\* it has, like its other keys, stays as it was.
C14_PayloadNormalized ==
    Normalized =>
        LET p == raw_output.rec.payload
            q == intent_data.d.payload
        IN  /\ p.k = "absent" =>
                  q = [k |-> "dict", explicit |-> DictOf({}), implicit |-> DictOf({}),
                       rest |-> {}]
            /\ (p.k = "dict" /\ p.explicit.k = "absent" /\ p.implicit.k = "absent") =>
                  q = [k |-> "dict", explicit |-> DictOf(p.rest), implicit |-> DictOf({}),
                       rest |-> {}]
            /\ (p.k = "dict" /\ p.explicit.k # "absent" /\ p.implicit.k = "absent") =>
                  q = [p EXCEPT !.implicit = DictOf({})]
            /\ (p.k = "dict" /\ p.explicit.k = "absent" /\ p.implicit.k # "absent") =>
                  q = [p EXCEPT !.explicit = DictOf({})]

\* C14 witness: a payload with an implicit object, no explicit key and three
\* more keys was normalized.
C14_Witness ==
    /\ Normalized
    /\ raw_output.rec.payload.k = "dict"
    /\ raw_output.rec.payload.explicit.k = "absent"
    /\ raw_output.rec.payload.implicit = DictOf({"x"})
    /\ raw_output.rec.payload.rest = {"client_id", "name", "type"}
    /\ intent_data.d.payload.explicit = DictOf({})

\* The entries of the backend's entities_involved that are strings or
\* objects, in their order.
StringOrObjectEntries ==
    SelectSeq(raw_output.rec.entities_involved.items, LAMBDA e : e.k \in {"str", "dict"})

\* C15: in the normalized entities_involved, an entry that was the bare string
\* s is {type: "ENTITY", name: s}; an entry that was an object with a name and
\* no type has type "ENTITY" and is otherwise as it was; an entry that had
\* both is as it was.
C15_EntitiesNormalized ==
    (Normalized /\ raw_output.rec.entities_involved.k = "list") =>
        LET in == StringOrObjectEntries
            out == intent_data.d.entities_involved.items
        IN  /\ intent_data.d.entities_involved.k = "list"
            /\ Len(out) = Len(in)
            /\ \A i \in 1..Len(in) :
                  /\ in[i].k = "str" =>
                        out[i] = [k |-> "dict", type |-> "ENTITY", name |-> in[i].name]
                  /\ (in[i].k = "dict" /\ in[i].name # "ABSENT" /\ in[i].type = "ABSENT") =>
                        out[i] = [k |-> "dict", type |-> "ENTITY", name |-> in[i].name]
                  /\ (in[i].k = "dict" /\ in[i].name # "ABSENT" /\ in[i].type # "ABSENT") =>
                        out[i] = in[i]

\* C15 witness: a list of a bare string and an object with a name only was
\* normalized.
C15_Witness ==
    /\ Normalized
    /\ raw_output.rec.entities_involved =
          ListOf(<<EntryStr("CLIENT"), EntryDict("ABSENT", "CASE")>>)
    /\ intent_data.d.entities_involved =
          ListOf(<<EntryDict("ENTITY", "CLIENT"), EntryDict("ENTITY", "CASE")>>)

\* C16: without a constraints key the normalized constraints are
\* {must_not_override_existing: true, additional_constraints: {}}, and a
\* constraints object gets the default of each field it lacks; without a
\* validation_requirements key the normalized value is {schema_validation:
\* true, duplicate_check: true, additional_validations: {}}, and an object
\* gets the default of each of the three it lacks; assumptions, ambiguities
\* and suggestions are empty lists when their keys are absent.
C16_DefaultsFilled ==
    Normalized =>
        LET c == raw_output.rec.constraints
            v == raw_output.rec.validation_requirements
            n == intent_data.d
        IN  /\ c.k = "absent" =>
                  n.constraints =
                     [k |-> "dict", must_not_override_existing |-> "true",
                      additional_constraints |-> DictOf({})]
            /\ c.k = "dict" =>
                  /\ n.constraints.k = "dict"
                  /\ n.constraints.must_not_override_existing =
                        IF c.must_not_override_existing = "ABSENT" THEN "true"
                        ELSE c.must_not_override_existing
                  /\ n.constraints.additional_constraints =
                        IF c.additional_constraints.k = "absent" THEN DictOf({})
                        ELSE c.additional_constraints
            /\ v.k = "absent" =>
                  n.validation_requirements =
                     [k |-> "dict", schema_validation |-> "true",
                      duplicate_check |-> "true", additional_validations |-> DictOf({})]
            /\ v.k = "dict" =>
                  /\ n.validation_requirements.k = "dict"
                  /\ n.validation_requirements.schema_validation =
                        IF v.schema_validation = "ABSENT" THEN "true" ELSE v.schema_validation
                  /\ n.validation_requirements.duplicate_check =
                        IF v.duplicate_check = "ABSENT" THEN "true" ELSE v.duplicate_check
                  /\ n.validation_requirements.additional_validations =
                        IF v.additional_validations.k = "absent" THEN DictOf({})
                        ELSE v.additional_validations
            /\ raw_output.rec.assumptions = "ABSENT" => n.assumptions = "EMPTY"
            /\ raw_output.rec.ambiguities = "ABSENT" => n.ambiguities = "EMPTY"
            /\ raw_output.rec.suggestions = "ABSENT" => n.suggestions = "EMPTY"

\* C16 witness: validation_requirements with duplicate_check false only, and
\* no constraints and no assumptions key, were normalized.
C16_Witness ==
    /\ Normalized
    /\ raw_output.rec.validation_requirements = ValReqsDict("ABSENT", "false", NoValue)
    /\ raw_output.rec.constraints.k = "absent"
    /\ raw_output.rec.assumptions = "ABSENT"
    /\ intent_data.d.validation_requirements = ValReqsDict("true", "false", DictOf({}))
    /\ intent_data.d.constraints = ConstraintsDict("true", DictOf({}))

\* The values of a key that the schema accepts; for confidence a number in
\* [0.0, 1.0] or text that reads as one.
WellTypedEntity(e) == e.k = "dict" /\ IsString(e.type) /\ IsString(e.name)
WellTypedDict(v) == v.k = "dict"
WellTypedList(l) == l \in {"EMPTY", "ONE"}
WellFormedFive(d) ==
    /\ d.target_section \in TargetSection
    /\ d.operation \in Operation
    /\ IsString(d.intent_summary)
    /\ d.confidence.k \in {"num", "numstr"} /\ 0 <= d.confidence.n /\ d.confidence.n <= 10
    /\ d.execution_risk \in ExecutionRisk

\* C17: the normalized record has target_section, operation, intent_summary,
\* confidence and execution_risk exactly as the extracted record had them,
\* absent when they were absent; a value of another key that was present and
\* well-typed is the same after normalization; and a record in which one of
\* the five is absent or malformed never succeeds, it fails validation with
\* an error at that key.
C17_FiveKeysUntouched ==
    Normalized =>
        LET d == raw_output.rec
            n == intent_data.d
        IN  /\ n.target_section = d.target_section
            /\ n.operation = d.operation
            /\ n.intent_summary = d.intent_summary
            /\ n.confidence = d.confidence
            /\ n.execution_risk = d.execution_risk
            /\ n.extra = d.extra
            /\ IsString(d.intent_id) => n.intent_id = d.intent_id
            /\ IsString(d.domain_pack_id) => n.domain_pack_id = d.domain_pack_id
            /\ ( /\ d.entities_involved.k = "list"
                 /\ \A i \in 1..Len(d.entities_involved.items) :
                       WellTypedEntity(d.entities_involved.items[i]) )
               => n.entities_involved = d.entities_involved
            /\ ( /\ WellTypedDict(d.payload)
                 /\ WellTypedDict(d.payload.explicit)
                 /\ WellTypedDict(d.payload.implicit) )
               => n.payload = d.payload
            /\ ( /\ WellTypedDict(d.constraints)
                 /\ IsBool(d.constraints.must_not_override_existing)
                 /\ WellTypedDict(d.constraints.additional_constraints) )
               => n.constraints = d.constraints
            /\ ( /\ WellTypedDict(d.validation_requirements)
                 /\ IsBool(d.validation_requirements.schema_validation)
                 /\ IsBool(d.validation_requirements.duplicate_check)
                 /\ WellTypedDict(d.validation_requirements.additional_validations) )
               => n.validation_requirements = d.validation_requirements
            /\ WellTypedList(d.assumptions) => n.assumptions = d.assumptions
            /\ WellTypedList(d.ambiguities) => n.ambiguities = d.ambiguities
            /\ WellTypedList(d.suggestions) => n.suggestions = d.suggestions
            /\ ~WellFormedFive(d) => pc # "succeeded"
            /\ (~WellFormedFive(d) /\ pc = "failed_validate") =>
                  \E i \in 1..Len(response.validation_errors) :
                      response.validation_errors[i] \in
                         {"target_section", "operation", "intent_summary",
                          "confidence", "execution_risk"}

\* C17 witness: an object that lacks only execution_risk was normalized
\* without gaining it and failed validation at that key.
C17_Witness ==
    /\ pc = "failed_validate"
    /\ raw_output.rec = [CanonicalDoc EXCEPT !.execution_risk = "ABSENT"]
    /\ intent_data.d.execution_risk = "ABSENT"
    /\ response.validation_errors = <<"execution_risk">>

\* C18 (the claim as stated): whatever the extractor returned, normalization
\* returns an object; it never raises and the request never fails there.
C18_NormalizationAlwaysSucceeds ==
    /\ pc # "failed_normalize_intent_data"
    /\ Normalized => intent_data.k = "dict"

\* C19 (the claim as stated): normalization leaves the object it was given,
\* the one the extractor returned, as it was, its entities_involved entries,
\* payload, constraints and validation_requirements included.
C19_ArgumentUnchanged ==
    Normalized => extracted = parse_llm_output(raw_output).v

\* C20: the normalizer adds neither intent_id nor domain_pack_id; when
\* generate_intent has returned both keys are present, a domain_pack_id that
\* was missing is the request's, an intent_id that was missing is the
\* generated token, and a key the record had keeps its value.
C20_IdentifiersFilledWhenAbsent ==
    LET d == raw_output.rec
        n == intent_data.d
    IN  /\ pc = "fill_identifiers" =>
              /\ n.intent_id = d.intent_id
              /\ n.domain_pack_id = d.domain_pack_id
        /\ pc \in {"validate", "succeeded", "failed_validate"} =>
              /\ n.intent_id # "ABSENT"
              /\ n.domain_pack_id # "ABSENT"
              /\ n.intent_id = (IF d.intent_id = "ABSENT" THEN "uuid4" ELSE d.intent_id)
              /\ n.domain_pack_id =
                    (IF d.domain_pack_id = "ABSENT" THEN request.domain_pack_id
                     ELSE d.domain_pack_id)

\* C20 witness: a record without either key, answering the request for
\* Med_v02, left generate_intent with both filled.
C20_Witness ==
    /\ pc = "validate"
    /\ request.domain_pack_id = "Med_v02"
    /\ raw_output.rec.intent_id = "ABSENT"
    /\ raw_output.rec.domain_pack_id = "ABSENT"
    /\ intent_data.d.intent_id = "uuid4"
    /\ intent_data.d.domain_pack_id = "Med_v02"

\* C21: validating the field values of a valid intent succeeds and yields an
\* intent equal to it in every field.
C21_ValidationIdempotent ==
    pc = "succeeded" =>
        LET V == response.intent
            again == IntentionSchema(model_dump(V))
        IN  /\ again.ok
            /\ again.errors = <<>>
            /\ again.model = V
            /\ \A f \in DOMAIN V : again.model[f] = V[f]

\* C21 witness: an intent built with defaults (the backend gave no intent_id,
\* no constraints and a bare-string entity) and a converted confidence is
\* valid and was validated again.
C21_Witness ==
    /\ pc = "succeeded"
    /\ raw_output.rec = [MinimalDoc EXCEPT !.confidence = NumStr(9)]
    /\ response.intent.confidence = Num(9)
    /\ response.intent.intent_id = "uuid4"
    /\ IntentionSchema(model_dump(response.intent)).ok

\* The request was validated, with or without success.
Validated == pc \in {"succeeded", "failed_validate"}

\* C22: a numeric confidence from 0.0 to 1.0, both bounds included, causes no
\* validation error and is the confidence of the intent; a confidence below
\* 0.0 or above 1.0 makes validation fail with an error at the path
\* confidence, and the record reported with the error still holds the value
\* as it was given (nothing is clamped into range).
C22_ConfidenceClosedInterval ==
    (Validated /\ raw_output.rec.confidence.k \in {"num", "numstr"}) =>
        LET c == raw_output.rec.confidence
            reported == {response.validation_errors[i] :
                            i \in 1..Len(response.validation_errors)}
        IN  /\ (0 <= c.n /\ c.n <= 10) =>
                  /\ "confidence" \notin reported
                  /\ pc = "succeeded" => response.intent.confidence = Num(c.n)
            /\ (c.n < 0 \/ c.n > 10) =>
                  /\ pc = "failed_validate"
                  /\ response.error = "INVALID_INTENT_SCHEMA"
                  /\ "confidence" \in reported
                  /\ response.llm_output.d.confidence = c

\* C22 witness: confidence 1.0 exactly was accepted.
C22_Witness ==
    /\ pc = "succeeded"
    /\ raw_output.rec = [CanonicalDoc EXCEPT !.confidence = Num(10)]
    /\ response.intent.confidence = Num(10)

\* C23: a record that IntentionSchema rejects is always answered with the
\* INVALID_INTENT_SCHEMA error response, never with success, with the
\* catch-all INTERNAL_ERROR or with no response: the response carries the
\* validator's errors, in their order, and the record exactly as it was
\* passed to the validator.
C23_ValidationFailureReported ==
    /\ (Validated /\ ~IntentionSchema(intent_data.d).ok) => pc = "failed_validate"
    /\ pc = "failed_validate" =>
          /\ response.status = "error"
          /\ response.error = "INVALID_INTENT_SCHEMA"
          /\ response.validation_errors # <<>>
          /\ response.validation_errors = IntentionSchema(intent_data.d).errors
          /\ response.llm_output = intent_data
          /\ response.llm_output.d =
                FillIdentifiers(NormalizeDict(raw_output.rec), request.domain_pack_id)
          /\ raised = NoExc

\* C23 witness: the object whose only key is entities_involved, holding one
\* entity without a name, was answered with the paths of all six violations
\* in field order and with the record as the validator got it.
C23_Witness ==
    /\ pc = "failed_validate"
    /\ raw_output.rec = [EmptyDoc EXCEPT !.entities_involved =
                            ListOf(<<EntryDict("RELATIONSHIP", "ABSENT")>>)]
    /\ response.validation_errors =
          <<"target_section", "operation", "intent_summary", "confidence",
            "entities_involved.0.name", "execution_risk">>
    /\ response.llm_output.d.entities_involved =
          ListOf(<<EntryDict("RELATIONSHIP", "ABSENT")>>)

\* C24: when validation has succeeded, a warning was logged exactly if the
\* intent's confidence is below 0.5, or its ambiguities are not empty, or its
\* execution_risk is HIGH; with or without a warning the response is the
\* success response that carries the validated intent and the success
\* message; and no warning is logged for a request that has not succeeded.
C24_WarningsOnlyObserve ==
    /\ pc = "succeeded" =>
          LET m == IntentionSchema(intent_data.d).model
          IN  /\ (warnings # <<>>) <=>
                    \/ m.confidence.n < 5
                    \/ m.ambiguities # "EMPTY"
                    \/ m.execution_risk = "HIGH"
              /\ response.status = "success"
              /\ response.message = "Intent parsed successfully"
              /\ response.intent = m
              /\ response.error = "" /\ response.validation_errors = <<>>
    /\ pc # "succeeded" => warnings = <<>>

\* C24 witness: an intent of confidence 0.3 succeeded with one warning.
C24_Witness ==
    /\ pc = "succeeded"
    /\ raw_output.rec = [CanonicalDoc EXCEPT !.confidence = Num(3)]
    /\ warnings = <<"Low confidence intent">>
    /\ response.status = "success"
    /\ response.intent.confidence = Num(3)

\* C25 (the claim as stated): while the request waits between two attempts,
\* a concurrent request that was not served yet can be served.
C25_BackoffLocalToRequest ==
    (pc = "sleep" /\ health = NoHealth) => ENABLED HealthCheck

\* C26 (the claim as stated): once the client of the request in flight has
\* disconnected, the pending retries are aborted: no backend attempt after
\* the first is started for the request.
C26_CancelAbortsRetries ==
    [][(cancelled /\ attempts >= 1) => attempts' = attempts]_vars

\* C27: serving the health check invokes no backend (the attempts and the
\* calls of the request are as before); its status is healthy exactly when
\* the selected variant is supported and that variant's key is set and not
\* empty, degraded when the configuration was read and that key is not set,
\* and unhealthy only in the answer of the except clause, which reports a
\* configuration error.
C27_HealthReflectsConfiguration ==
    /\ [](health # NoHealth =>
            /\ health.status \in {"healthy", "degraded", "unhealthy"}
            /\ health.status = "healthy" => ~ProviderUnusable
            /\ health.status = "degraded" => ProviderUnusable
            /\ health.status # "unhealthy" =>
                  /\ health.api_key_configured = ~ProviderUnusable
                  /\ health.status = (IF ProviderUnusable THEN "degraded" ELSE "healthy")
            /\ health.status = "unhealthy" =>
                  /\ health.message = "Configuration error"
                  /\ ~health.api_key_configured)
    /\ [][health' # health =>
            /\ attempts' = attempts /\ calls' = calls /\ delays' = delays
            /\ pc' = pc /\ response' = response]_vars

\* C27 witness: with groq selected, GROQ_API_KEY empty and another variant's
\* key set, the health check answered degraded.
C27_Witness ==
    /\ health.status = "degraded"
    /\ ~health.api_key_configured
    /\ settings.LLM_PROVIDER = "groq"
    /\ settings.GROQ_API_KEY = ""
    /\ settings.OPENAI_API_KEY = "sk-o"

\* The steps of the pipeline in their order: from each position, the
\* positions one step of the request can lead to.
StageOrder ==
    {<<"get_llm_provider", "generate">>, <<"get_llm_provider", "failed_get_llm_provider">>,
     <<"generate", "sleep">>, <<"sleep", "generate">>,
     <<"generate", "parse_llm_output">>, <<"generate", "failed_generate">>,
     <<"parse_llm_output", "normalize_intent_data">>,
     <<"parse_llm_output", "failed_parse_llm_output">>,
     <<"normalize_intent_data", "fill_identifiers">>,
     <<"normalize_intent_data", "failed_normalize_intent_data">>,
     <<"fill_identifiers", "validate">>,
     <<"validate", "succeeded">>, <<"validate", "failed_validate">>}

\* The backend has returned text on its last invocation.
BackendAnswered == calls # <<>> /\ calls[Len(calls)] = "ok"

\* C28: the request moves only from provider selection to generation (with
\* its sleeps), extraction, normalization, identifier filling and validation,
\* in this order, or from one of them to its failure; it has succeeded only
\* if validation passed; and once the backend has returned text it is not
\* invoked again, so a failure of extraction, normalization or validation
\* ends the request.
C28_StagesInOrder ==
    /\ [][pc' # pc => <<pc, pc'>> \in StageOrder]_vars
    /\ [][BackendAnswered =>
            /\ attempts' = attempts /\ calls' = calls
            /\ raw_output' = raw_output /\ delays' = delays]_vars
    /\ [](pc = "succeeded" =>
            /\ IntentionSchema(intent_data.d).ok
            /\ response.status = "success"
            /\ BackendAnswered)
    /\ [](pc \in {"failed_parse_llm_output", "failed_normalize_intent_data",
                  "failed_validate"} => BackendAnswered)

\* C28 witness: after one failed attempt the backend returned prose, and the
\* extraction failure ended the request with two invocations made.
C28_Witness ==
    /\ pc = "failed_parse_llm_output"
    /\ calls = <<"APITimeoutError", "ok">>
    /\ attempts = 2
    /\ raw_output = Text(<<"w">>, EmptyDoc)

\* C29 (the claim as stated): in every success response the intent's
\* domain_pack_id is the domain_pack_id of the request.
C29_TargetIsTheRequestsPack ==
    response.status = "success" =>
        response.intent.domain_pack_id = request.domain_pack_id

\* C30 (the claim as stated): the normalized entities_involved has as many
\* entries as the extracted one, an entry that is neither a string nor an
\* object is still at its place, and a record that holds such an entry does
\* not succeed.
C30_EveryEntryKept ==
    (Normalized /\ raw_output.rec.entities_involved.k = "list") =>
        LET in == raw_output.rec.entities_involved.items
            out == intent_data.d.entities_involved.items
        IN  /\ Len(out) = Len(in)
            /\ \A i \in 1..Len(in) :
                  in[i].k = "other" => (i <= Len(out) /\ out[i] = in[i])
            /\ (\E i \in 1..Len(in) : in[i].k = "other") => pc # "succeeded"
====
